---- MODULE Spec2Model ----
(***************************************************************************)
(* Detail-page field-extraction pipeline of the gnavi scraper, in its two  *)
(* front-ends: 1-1.py (requests + BeautifulSoup, "static") and 1-2.py      *)
(* (Selenium, "browser").                                                  *)
(*                                                                         *)
(* Text that the address pattern inspects is a sequence of characters,     *)
(* each character one token.  TLA+ strings are ASCII, so every kanji of    *)
(* the source is written as a romanised token:                             *)
(*   to U+90FD  do U+9053  fu U+5E9C  ken U+770C   (prefecture suffixes)   *)
(*   shi U+5E02 ku U+533A  machi U+753A mura U+6751 (city suffixes)        *)
(*   gun U+90E1 tama U+7389 dai U+5927 ...          (see NamedCities)      *)
(* "nl" is the line break, "1" and "2" are digits, "-" is the hyphen.      *)
(* Text that is only copied (name, phone, email, URLs) is a plain string;  *)
(* Python's None is the string "None", True/False are "True"/"False".      *)
(***************************************************************************)
EXTENDS Integers, Sequences, FiniteSets

\* ------------------------------------------------------------ bounds

\* Longest run of free characters after the prefecture prefix of a raw
\* address drawn in InitAddress.
MaxBody == 4

\* Most links a search-result page holds, and the last search page the crawl
\* loop of main asks for.
MaxLinks == 3
MaxPage == 3

\* ------------------------------------------------- character classes

LineBreak == "nl"

\* '.' of the pattern: any character but the line break (no re.DOTALL).
Dot(c) == c # LineBreak

\* '\d'
Digits == {"1", "2"}

\* [to do fu ken] of prefecture_pattern
PrefectureSuffix == {"to", "do", "fu", "ken"}

\* [shi ku machi mura] of city_pattern
CitySuffix == {"shi", "ku", "machi", "mura"}

\* [machi mura] of the district alternative
TownSuffix == {"machi", "mura"}

\* The allow-list of city_pattern's first alternative, in source order:
\* Asahikawa, Date, Ishikari, Morioka, Oshu, Tamura, Minamisoma,
\* Nasushiobara, Higashimurayama, Musashimurayama, Hamura, Tokamachi,
\* Joetsu, Toyama, Nonoichi, Omachi, Gamagori, Yokkaichi, Himeji,
\* Yamatokoriyama, Hatsukaichi, Kudamatsu, Iwakuni, Tagawa, Omura.
NamedCities ==
    << <<"asahi", "kawa">>, <<"i", "date">>, <<"ishi", "kari">>, <<"mori", "oka">>,
       <<"oku", "shu">>, <<"ta", "mura">>, <<"minami", "so", "ma">>,
       <<"na", "su", "shio", "hara">>, <<"higashi", "mura", "yama">>,
       <<"mu", "sashi", "mura", "yama">>, <<"ha", "mura">>, <<"ju", "hi", "machi">>,
       <<"jo", "etsu">>, <<"tomi", "yama">>, <<"no", "noma", "shi">>, <<"dai", "machi">>,
       <<"gama", "gun">>, <<"yon", "hi", "shi">>, <<"hime", "ji">>,
       <<"dai", "wa", "gun", "yama">>, <<"hatsu", "hi", "shi">>, <<"kuda", "matsu">>,
       <<"iwa", "kuni">>, <<"ta", "kawa">>, <<"dai", "mura">> >>

\* The two literal towns of the district alternative: Tamamura, Omachi.
DistrictTowns == << <<"tama", "mura">>, <<"dai", "machi">> >>

\* ---------------------------------------------------- regex helpers
\* Positions are 1-based; 0 stands for "this branch found no match".

Min(S) == CHOOSE x \in S : \A y \in S : x <= y

\* Every character of s[a..b] is matched by '.'.
Dots(s, a, b) == \A k \in a..b : k <= Len(s) /\ Dot(s[k])

\* The literal w occurs in s at position a.
Lit(s, a, w) == a + Len(w) - 1 <= Len(s) /\ \A k \in 1..Len(w) : s[a + k - 1] = w[k]

\* '\d' can match at position k.
DigitAt(s, k) == k <= Len(s) /\ s[k] \in Digits

\* LazyEnd with the digit that must follow forgotten: the lazy '.+?' stops
\* after its first character.
LazyEndOne(s, from) ==
    IF from <= Len(s) /\ Dot(s[from]) THEN from ELSE 0

\* A lazy '.+?' starting at position from and followed by '\d': the engine
\* lengthens it one character at a time and stops at the first length after
\* which a digit follows, that is before the first digit past position from,
\* if no line break lies in between.  The value is the last position consumed.
LazyEnd(s, from) ==
    LET ds == { k \in (from + 1)..Len(s) : s[k] \in Digits }
    IN  IF ds = {} \/ from > Len(s) THEN 0
        ELSE IF Dots(s, from, Min(ds) - 1) THEN Min(ds) - 1 ELSE 0

\* ------------------------------------------------- the address pattern

\* prefecture_pattern  (...??[to do fu ken]): two characters, lazily a third,
\* then a prefecture suffix.  The candidate lengths in the order tried.
prefecture_pattern(s) ==
    SelectSeq(<<3, 4>>, LAMBDA p : p <= Len(s) /\ Dots(s, 1, p - 1)
                                   /\ s[p] \in PrefectureSuffix)

\* NamedCityAlt with the allow-list lost: the alternative never matches.
NamedCityAltOff(s, a) == 0

\* Alternative 1:  (?:name|...)shi.+?   followed by \d.
\* The names are tried in source order; the first whose branch matches wins.
NamedCityAlt(s, a) ==
    LET hits == { i \in 1..Len(NamedCities) :
                    /\ Lit(s, a, NamedCities[i] \o <<"shi">>)
                    /\ LazyEnd(s, a + Len(NamedCities[i]) + 1) # 0 }
    IN  IF hits = {} THEN 0
        ELSE LazyEnd(s, a + Len(NamedCities[Min(hits)]) + 1)

\* One position i of 'gun' in alternative 2: the group after it is tried as
\* tama-mura, then dai-machi, then a lazy .+?; then [machi mura].+? and \d.
DistrictTown(s, i) ==
    LET towns == { t \in 1..Len(DistrictTowns) :
                     /\ Lit(s, i + 1, DistrictTowns[t])
                     /\ i + 3 <= Len(s) /\ s[i + 3] \in TownSuffix
                     /\ LazyEnd(s, i + 4) # 0 }
        free  == { k \in (i + 2)..Len(s) :
                     /\ s[k] \in TownSuffix
                     /\ Dots(s, i + 1, k - 1)
                     /\ LazyEnd(s, k + 1) # 0 }
    IN  IF towns # {} THEN LazyEnd(s, i + 4)
        ELSE IF free # {} THEN LazyEnd(s, Min(free) + 1)
        ELSE 0

\* Alternative 2:  .+?gun(?:tama mura|dai machi|.+?)[machi mura].+?   and \d
DistrictAlt(s, a) ==
    LET is == { i \in (a + 1)..Len(s) :
                  s[i] = "gun" /\ Dots(s, a, i - 1) /\ DistrictTown(s, i) # 0 }
    IN  IF is = {} THEN 0 ELSE DistrictTown(s, Min(is))

\* One position j of 'shi' in alternative 3: the first 'ku' at least two
\* positions on that a digit follows.
Ward(s, j) ==
    LET ks == { k \in (j + 2)..Len(s) :
                  s[k] = "ku" /\ DigitAt(s, k + 1) /\ Dots(s, j + 1, k - 1) }
    IN  IF ks = {} THEN 0 ELSE Min(ks)

\* Alternative 3:  .+?shi.+?ku   followed by \d
CityWardAlt(s, a) ==
    LET js == { j \in (a + 1)..Len(s) :
                  s[j] = "shi" /\ Dots(s, a, j - 1) /\ Ward(s, j) # 0 }
    IN  IF js = {} THEN 0 ELSE Ward(s, Min(js))

\* GenericAlt with the trailing '.+?' lost: the city group ends at the suffix.
GenericAltAtSuffix(s, a) ==
    LET js == { j \in (a + 1)..Len(s) : s[j] \in CitySuffix /\ Dots(s, a, j - 1) }
    IN  IF js = {} THEN 0 ELSE Min(js)

\* Alternative 4:  .+?[shi ku machi mura].+?   followed by \d
GenericAlt(s, a) ==
    LET js == { j \in (a + 1)..Len(s) :
                  s[j] \in CitySuffix /\ Dots(s, a, j - 1) /\ LazyEnd(s, j + 1) # 0 }
    IN  IF js = {} THEN 0 ELSE LazyEnd(s, Min(js) + 1)

\* The alternatives of city_pattern, numbered in source order.
AllAlts == {1, 2, 3, 4}

CityAlt(s, a, n) ==
    CASE n = 1 -> NamedCityAlt(s, a)
      [] n = 2 -> DistrictAlt(s, a)
      [] n = 3 -> CityWardAlt(s, a)
      [] n = 4 -> GenericAlt(s, a)

\* city_pattern cut down to the alternatives in alts, starting at position a
\* and followed by street_pattern: the last position of the city group under
\* the first alternative, in source order, that matches; 0 if none does.
CityOf(s, a, alts) ==
    LET hits == { n \in alts : CityAlt(s, a, n) # 0 }
    IN  IF hits = {} THEN 0 ELSE CityAlt(s, a, Min(hits))

city_pattern(s, a) == CityOf(s, a, AllAlts)

\* street_pattern with the greedy '.*' lost: the group is the digit alone.
street_pattern_digit(s, k) == IF ~DigitAt(s, k) THEN 0 ELSE k

\* street_pattern  (\d.*) starting at position k: a digit, then greedily every
\* character up to the line break or the end.  The last position of the group.
street_pattern(s, k) ==
    IF ~DigitAt(s, k) THEN 0
    ELSE Min({ e \in k..Len(s) : e = Len(s) \/ ~Dot(s[e + 1]) })

NoMatch == [matched |-> FALSE, prefecture |-> <<>>, city |-> <<>>, street |-> <<>>]

\* re.compile(prefecture + city + street).match(s) with city_pattern cut down
\* to the alternatives in alts: the groups of the first match in backtracking
\* order over the prefecture candidates ps.
RECURSIVE MatchFrom(_, _, _)
MatchFrom(s, ps, alts) ==
    IF ps = <<>> THEN NoMatch
    ELSE LET p == Head(ps)
             e == CityOf(s, p + 1, alts)
         IN  IF e # 0
             THEN [matched    |-> TRUE,
                   prefecture |-> SubSeq(s, 1, p),
                   city       |-> SubSeq(s, p + 1, e),
                   street     |-> SubSeq(s, e + 1, street_pattern(s, e + 1))]
             ELSE MatchFrom(s, Tail(ps), alts)

address_pattern(s) == MatchFrom(s, prefecture_pattern(s), AllAlts)

\* ------------------------------------------------------- the document
\* A detail page, as far as the extractors look at it.  Each field says
\* whether the element is in the page (and, for attributes, what it holds).

Frontends == {"static", "browser"}

None == "None"

\* Python truthiness of a str-or-None value.
Truthy(v) == v # None /\ v # ""

\* The URLs a page can lead to: the one built from data-o, and what an href
\* can hold: an absolute URL, a URL without scheme and host, and a URL whose
\* host opens a bracket it never closes.
PrimaryUrl  == "https://primary"
AltUrl      == "https://alt"
RelativeUrl == "/relative"
BracketUrl  == "http://[alt"

\* What the data-o attribute of the a.url.go-off link can hold:
\*   None        no such attribute          ""          empty attribute
\*   malformed   not JSON                   non_object  JSON, but a list/number
\*   no_a, no_b  an object lacking a key    object      {"b": "https", "a": "primary"}
DataOKinds == {None, "", "malformed", "non_object", "no_a", "no_b", "object"}

\* What the href of the a.sv-of.double link can hold.
HrefKinds == {None, "", AltUrl, RelativeUrl, BracketUrl}

\* requests can send a GET to u (anything else is refused with a
\* RequestException before a connection is made).
Fetchable(u) == u \notin {None, "", RelativeUrl, BracketUrl}

\* urlparse(u) raises ValueError (an unclosed bracket in the host).
ParseFails(u) == u = BracketUrl

\* urlparse(u).netloc is not empty
HasHost(u) == u \notin {None, "", RelativeUrl}

\* response.url of a GET that followed the redirects of u
FinalUrl(u) == IF u = PrimaryUrl THEN "https://primary/final" ELSE "https://alt/final"

Shibuya == <<"higashi", "kyo", "to", "shibu", "ya", "ku", "jin", "minami",
             "1", "-", "1", "-", "1">>

\* The regions the pages of the pipeline specification carry.
PageRegions == { Shibuya, SubSeq(Shibuya, 1, 8) }

NoTable ==
    [table |-> FALSE, name |-> FALSE, phone_row |-> FALSE, number |-> FALSE,
     mailto |-> FALSE, adr |-> FALSE, has_region |-> FALSE, region |-> <<>>,
     locality |-> FALSE, link |-> FALSE, data_o |-> None,
     sv_site |-> FALSE, sv_link |-> FALSE, href |-> None]

\* A page is well-formed when nothing hangs below an element that is absent.
WellFormed(d) ==
    /\ (~d.phone_row => ~d.number)
    /\ (~d.adr => ~d.has_region /\ ~d.locality)
    /\ (~d.has_region => d.region = <<>>)
    /\ (d.has_region => d.region # <<>>)
    /\ (~d.link => d.data_o = None)
    /\ (~d.sv_site => ~d.sv_link)
    /\ (~d.sv_link => d.href = None)

TablePages(regions) ==
    { d \in [table : {TRUE}, name : BOOLEAN, phone_row : BOOLEAN, number : BOOLEAN,
             mailto : BOOLEAN, adr : BOOLEAN, has_region : BOOLEAN,
             region : regions \cup {<<>>}, locality : BOOLEAN,
             link : BOOLEAN, data_o : DataOKinds,
             sv_site : BOOLEAN, sv_link : BOOLEAN, href : HrefKinds] : WellFormed(d) }

Pages == {NoTable} \cup TablePages(PageRegions)

\* ------------------------------------------------------ the extractors
\* Each returns [kind |-> "return", val |-> v] or [kind |-> "raise", exc |-> e].

Return(v) == [kind |-> "return", val |-> v]
Raise(e)  == [kind |-> "raise", exc |-> e]

\* get_rs_data_member_static with the final check lost: an unknown data_type
\* falls through to  return ''.
get_rs_data_member_silent(d, data_type) ==
    CASE data_type = "name"  -> Return(IF d.name THEN "NAME" ELSE "")
      [] data_type = "phone" ->
            IF d.phone_row
            THEN IF d.number THEN Return("PHONE") ELSE Raise("AttributeError")
            ELSE Return("")
      [] data_type = "email" -> Return(IF d.mailto THEN "EMAIL" ELSE "")
      [] OTHER -> Return("")

\* get_rs_data_member of 1-1.py: find() gives None for a missing element.
get_rs_data_member_static(d, data_type) ==
    CASE data_type = "name"  -> Return(IF d.name THEN "NAME" ELSE "")
      [] data_type = "phone" ->
            IF d.phone_row
            THEN IF d.number THEN Return("PHONE") ELSE Raise("AttributeError")
            ELSE Return("")
      [] data_type = "email" -> Return(IF d.mailto THEN "EMAIL" ELSE "")
      [] OTHER -> Raise("ValueError")

\* get_rs_data_member of 1-2.py: find_element raises for a missing element.
get_rs_data_member_browser(d, data_type) ==
    CASE data_type = "name"  ->
            IF d.name THEN Return("NAME") ELSE Raise("NoSuchElementException")
      [] data_type = "phone" ->
            IF d.phone_row /\ d.number THEN Return("PHONE")
            ELSE Raise("NoSuchElementException")
      [] data_type = "email" -> Return(IF d.mailto THEN "EMAIL" ELSE "")
      [] OTHER -> Raise("ValueError")

get_rs_data_member(f, d, data_type) ==
    IF f = "static" THEN get_rs_data_member_static(d, data_type)
    ELSE get_rs_data_member_browser(d, data_type)

Address(m, locality) ==
    [prefecture |-> m.prefecture, city |-> m.city, street |-> m.street,
     building |-> locality]

\* get_address of 1-1.py
get_address_static(d) ==
    IF ~d.adr THEN Return(Address(NoMatch, ""))
    ELSE Return(Address(address_pattern(IF d.has_region THEN d.region ELSE <<>>),
                        IF d.locality THEN "BUILDING" ELSE ""))

\* get_address of 1-2.py
get_address_browser(d) ==
    IF ~d.adr \/ ~d.has_region THEN Raise("NoSuchElementException")
    ELSE Return(Address(address_pattern(d.region),
                        IF d.locality THEN "BUILDING" ELSE ""))

get_address(f, d) ==
    IF f = "static" THEN get_address_static(d) ELSE get_address_browser(d)

\* The candidate URL of get_url in 1-1.py, before the redirect is followed:
\* [kind |-> "candidate", url |-> u], or the early return / the error that
\* ends get_url in the primary step.
Candidate(u) == [kind |-> "candidate", url |-> u]

get_url_primary_static(d) ==
    IF ~d.link THEN Candidate(None)
    ELSE CASE d.data_o \in {None, ""}                    -> Candidate(None)
           [] d.data_o \in {"malformed", "no_a", "no_b"} -> Return(None)
           [] d.data_o = "non_object"                    -> Raise("TypeError")
           [] d.data_o = "object"                        -> Candidate(PrimaryUrl)

get_url_fallback_static(d, c) ==
    IF c.kind # "candidate" \/ Truthy(c.url) THEN c
    ELSE IF d.sv_site /\ d.sv_link THEN Candidate(d.href) ELSE Candidate(None)

get_url_candidate_static(d) == get_url_fallback_static(d, get_url_primary_static(d))

\* What requests.get(url, allow_redirects=True) does for the outcome net the
\* network chose: a URL without a scheme never leaves the client.
NetOutcomes == {"ok", "error", "hang"}

GetOutcome(u, net) == IF Fetchable(u) THEN net ELSE "error"

\* get_url_redirect_static with the candidate dropped when the GET fails.
get_url_redirect_drops(c, net) ==
    IF c.kind # "candidate" THEN c
    ELSE IF ~Truthy(c.url) THEN Return(None)
    ELSE CASE GetOutcome(c.url, net) = "ok"    -> Return(FinalUrl(c.url))
           [] GetOutcome(c.url, net) = "error" -> Return(None)
           [] GetOutcome(c.url, net) = "hang"  -> [kind |-> "block"]

\* The normalisation step of get_url in 1-1.py.  [kind |-> "block"]: the call
\* never returns (the GET carries no timeout).
get_url_redirect_static(c, net) ==
    IF c.kind # "candidate" THEN c
    ELSE IF ~Truthy(c.url) THEN Return(None)
    ELSE CASE GetOutcome(c.url, net) = "ok"    -> Return(FinalUrl(c.url))
           [] GetOutcome(c.url, net) = "error" -> Return(c.url)
           [] GetOutcome(c.url, net) = "hang"  -> [kind |-> "block"]

get_url_static(d, net) == get_url_redirect_static(get_url_candidate_static(d), net)

\* get_url of 1-2.py: every error of the primary step leads to the fallback
\* step, every error of the fallback step to None; no redirect is followed.
get_url_browser(d) ==
    IF d.link /\ d.data_o = "object" THEN Return(PrimaryUrl)
    ELSE IF d.sv_site /\ d.sv_link THEN Return(d.href)
    ELSE Return(None)

get_url(f, d, net) == IF f = "static" THEN get_url_static(d, net) ELSE get_url_browser(d)

\* How the connection and the handshake of check_ssl_certificate can end:
\*   cert       handshake done, getpeercert() gives a certificate
\*   no_cert    handshake done, getpeercert() gives nothing
\*   ssl_error  ssl.SSLError      timeout  socket.timeout      other  any other
TlsOutcomes == {"cert", "no_cert", "ssl_error", "timeout", "other"}

\* None, where the caller unpacks a pair: the function ran off its end.
NoPair == <<>>

\* check_ssl_certificate (the same text in both files).  urlparse stands
\* outside the try block.
check_ssl_certificate(url, tls) ==
    IF ParseFails(url) THEN Raise("ValueError")
    ELSE IF ~HasHost(url) THEN Return(<<"False", "Invalid URL">>)
    ELSE CASE tls = "cert"      -> Return(<<"True", "SSL Available">>)
           [] tls = "no_cert"   -> Return(NoPair)
           [] tls = "ssl_error" -> Return(<<"False", "SSL Error">>)
           [] tls = "timeout"   -> Return(<<"False", "Conn Timeout">>)
           [] tls = "other"     -> Return(<<"False", "SSL Not Available">>)

\* has_ssl, message = check_ssl_certificate(url); return has_ssl
UnpackHasSsl(r) ==
    IF r.kind = "raise" THEN r
    ELSE IF r.val = NoPair THEN Raise("TypeError")
    ELSE Return(r.val[1])

\* check_ssl_status of 1-1.py: no else branch, so None for a falsy url.
check_ssl_status_static(url, tls) ==
    IF Truthy(url)
    THEN UnpackHasSsl(check_ssl_certificate(url, tls))
    ELSE Return(None)

\* check_ssl_status of 1-2.py
check_ssl_status_browser(url, tls) ==
    IF Truthy(url)
    THEN UnpackHasSsl(check_ssl_certificate(url, tls))
    ELSE Return("False")

check_ssl_status(f, url, tls) ==
    IF f = "static" THEN check_ssl_status_static(url, tls)
    ELSE check_ssl_status_browser(url, tls)

\* ------------------------------------------------------------- state

VARIABLES
    frontend,     \* which script runs: "static" (1-1.py) or "browser" (1-2.py)
    doc,          \* the detail page behind rs_url
    pc,           \* where get_rs_data stands
    data_dict,    \* the record get_rs_data builds
    raised,       \* the exception that left get_rs_data, None if none
    lookups,      \* extractor calls made on the page so far
    requests,     \* redirect-following GETs issued by get_url
    probes,       \* calls of check_ssl_certificate
    url_ret,      \* what get_url returned or raised
    candidate,    \* get_url's candidate URL before the redirect step
    net,          \* how the redirect-following GET ended, None if none was made
    tls,          \* how the TLS probe ended, None if none was made
    cert_ret,     \* what check_ssl_certificate returned or raised
    data_type,    \* the argument of the last get_rs_data_member call
    member_ret,   \* what that call returned or raised
    rs_count,     \* main: the number of records collected
    data,         \* main: the records collected
    pg_count,     \* main: the number of the search page asked for
    rs_links      \* main: the links of the search page still to be visited

vars == <<frontend, doc, pc, data_dict, raised, lookups, requests, probes,
          url_ret, candidate, net, tls, cert_ret, data_type, member_ret,
          rs_count, data, pg_count, rs_links>>

\* The variables of main's crawl loop.
crawl == <<rs_count, data, pg_count, rs_links>>

NotCalled == [kind |-> "none"]

\* data_dict as get_rs_data first builds it (empty address text is <<>>).
Defaults ==
    [name |-> "", phone |-> "", email |-> "", prefecture |-> <<>>, city |-> <<>>,
     street |-> <<>>, building |-> "", URL |-> "", SSL |-> "False"]

Fresh ==
    /\ data_dict = Defaults
    /\ raised = None
    /\ lookups = 0 /\ requests = 0 /\ probes = 0
    /\ url_ret = NotCalled
    /\ candidate = None /\ net = None /\ tls = None
    /\ cert_ret = NotCalled
    /\ member_ret = NotCalled
    /\ rs_count = 0 /\ data = <<>> /\ pg_count = 1 /\ rs_links = <<>>

Init ==
    /\ frontend \in Frontends
    /\ doc \in Pages
    /\ pc = "get_rs_data"
    /\ data_type = None
    /\ Fresh

\* An exception leaves get_rs_data: neither front-end catches anything the
\* extractors raise, and main's loop has no handler either.
Escape(e) == pc' = "raised" /\ raised' = e

\* get_rs_data up to the root table.
\* 1-1.py: the page is fetched; a status other than 200, a RequestException
\* or a missing table give the defaults; the GET carries no timeout.
\* 1-2.py: driver.get, then WebDriverWait(...).until(presence of the table),
\* which raises TimeoutException when the table does not appear.
FetchOutcomes(f) ==
    IF f = "static" THEN {"200", "404", "RequestException", "hang"}
    ELSE {"loaded", "WebDriverException"}

Fetch ==
    /\ pc = "get_rs_data"
    /\ \E r \in FetchOutcomes(frontend) :
         CASE r \in {"404", "RequestException"} -> pc' = "returned" /\ raised' = raised
           [] r = "hang"               -> pc' = "blocked" /\ raised' = raised
           [] r = "WebDriverException" -> Escape("WebDriverException")
           [] r = "200"    -> /\ pc' = IF doc.table THEN "name" ELSE "returned"
                              /\ raised' = raised
           [] r = "loaded" -> IF doc.table THEN pc' = "name" /\ raised' = raised
                              ELSE Escape("TimeoutException")
    /\ UNCHANGED <<frontend, doc, data_dict, lookups, requests, probes,
                   url_ret, candidate, net, tls, cert_ret, data_type, member_ret>>
    /\ UNCHANGED crawl

\* data_dict[key] = get_rs_data_member(info_table, dt)
Member(at, dt, next) ==
    /\ pc = at
    /\ LET r == get_rs_data_member(frontend, doc, dt)
       IN  /\ data_type' = dt
           /\ member_ret' = r
           /\ IF r.kind = "return"
              THEN /\ data_dict' = [data_dict EXCEPT ![dt] = r.val]
                   /\ pc' = next /\ raised' = raised
              ELSE data_dict' = data_dict /\ Escape(r.exc)
    /\ lookups' = lookups + 1
    /\ UNCHANGED <<frontend, doc, requests, probes, url_ret, candidate, net, tls,
                   cert_ret>>
    /\ UNCHANGED crawl

MemberName  == Member("name", "name", "phone")
MemberPhone == Member("phone", "phone", "email")
MemberEmail == Member("email", "email", "address")

\* data_dict.update(get_address(info_table))
GetAddress ==
    /\ pc = "address"
    /\ \E r \in {get_address(frontend, doc)} :
           IF r.kind = "return"
           THEN /\ data_dict' = [data_dict EXCEPT
                       !.prefecture = r.val.prefecture, !.city = r.val.city,
                       !.street = r.val.street, !.building = r.val.building]
                /\ pc' = "url" /\ raised' = raised
           ELSE data_dict' = data_dict /\ Escape(r.exc)
    /\ lookups' = lookups + 1
    /\ UNCHANGED <<frontend, doc, requests, probes, url_ret, candidate, net, tls,
                   cert_ret, data_type, member_ret>>
    /\ UNCHANGED crawl

\* The candidate get_url holds when it reaches its last step (None if it
\* holds none, or never gets there).
CandidateOf(f, d) ==
    IF f = "static"
    THEN LET c == get_url_candidate_static(d)
         IN  IF c.kind = "candidate" THEN c.url ELSE None
    ELSE get_url_browser(d).val

\* data_dict['URL'] = get_url(info_table, soup)
GetUrl ==
    /\ pc = "url"
    /\ \E n \in NetOutcomes :
         LET r    == get_url(frontend, doc, n)
             c    == CandidateOf(frontend, doc)
             sent == frontend = "static" /\ Truthy(c)
         IN  /\ url_ret' = r
             /\ candidate' = c
             /\ requests' = IF sent THEN requests + 1 ELSE requests
             /\ net' = IF sent THEN GetOutcome(c, n) ELSE None
             /\ CASE r.kind = "return" ->
                       /\ data_dict' = [data_dict EXCEPT !.URL = r.val]
                       /\ pc' = "ssl" /\ raised' = raised
                  [] r.kind = "raise" -> data_dict' = data_dict /\ Escape(r.exc)
                  [] r.kind = "block" ->
                       data_dict' = data_dict /\ pc' = "blocked" /\ raised' = raised
    /\ lookups' = lookups + 1
    /\ UNCHANGED <<frontend, doc, probes, tls, cert_ret, data_type, member_ret>>
    /\ UNCHANGED crawl

\* data_dict['SSL'] = check_ssl_status(data_dict['URL'])
CheckSsl ==
    /\ pc = "ssl"
    /\ \E t \in TlsOutcomes :
         LET url    == data_dict.URL
             probed == Truthy(url)
             r      == check_ssl_status(frontend, url, t)
         IN  /\ probes' = IF probed THEN probes + 1 ELSE probes
             /\ tls' = IF probed /\ ~ParseFails(url) /\ HasHost(url) THEN t ELSE None
             /\ cert_ret' = IF probed THEN check_ssl_certificate(url, t) ELSE cert_ret
             /\ IF r.kind = "return"
                THEN /\ data_dict' = [data_dict EXCEPT !.SSL = r.val]
                     /\ pc' = "returned" /\ raised' = raised
                ELSE data_dict' = data_dict /\ Escape(r.exc)
    /\ UNCHANGED <<frontend, doc, lookups, requests, url_ret, candidate, net,
                   data_type, member_ret>>
    /\ UNCHANGED crawl

Next ==
    \/ Fetch
    \/ MemberName
    \/ MemberPhone
    \/ MemberEmail
    \/ GetAddress
    \/ GetUrl
    \/ CheckSsl

Spec == Init /\ [][Next]_vars

\* get_rs_data on the pages that hold every element but, possibly, the URL
\* links, and running on: a step that can be taken is taken.  A call that
\* never returns leaves no step to take.
CompletePages ==
    { d \in Pages : /\ d.table /\ d.name /\ d.phone_row /\ d.number /\ d.mailto
                    /\ d.adr /\ d.has_region /\ d.locality /\ d.region = Shibuya }

InitComplete ==
    /\ frontend \in Frontends
    /\ doc \in CompletePages
    /\ pc = "get_rs_data"
    /\ data_type = None
    /\ Fresh

SpecLive == InitComplete /\ [][Next]_vars /\ WF_vars(Next)

\* ------------------------------------ get_rs_data_member called directly
\* The extractor is a function of its own: the specification below calls it
\* with every data_type of DataTypes on every page of MemberPages.

DataTypes == {"name", "phone", "email", "address", "url", "NAME", ""}

MemberPages ==
    { d \in TablePages({}) : ~d.adr /\ ~d.link /\ ~d.sv_site }

InitMember ==
    /\ frontend \in Frontends
    /\ doc \in MemberPages
    /\ pc = "call"
    /\ data_type \in DataTypes
    /\ Fresh

CallMember ==
    /\ pc = "call"
    /\ member_ret' = get_rs_data_member(frontend, doc, data_type)
    /\ pc' = "called"
    /\ lookups' = lookups + 1
    /\ UNCHANGED <<frontend, doc, data_dict, raised, requests, probes, url_ret,
                   candidate, net, tls, cert_ret, data_type>>
    /\ UNCHANGED crawl

NextMember == CallMember

SpecMember == InitMember /\ [][NextMember]_vars

\* ------------------------------------------------ the crawl loop of main
\* main asks for search page after search page and calls get_rs_data on the
\* links of each, until rs_demand records are collected.  A search page is
\* the list of its links; get_rs_data is what the pipeline above makes of
\* it: it returns a record, raises, or (1-1.py) never returns.

rs_demand == 50

\* The links of a search page that holds n of them.
SearchPage(n) == [i \in 1..n |-> i]

\* Slice with the cut lost: every link of the page is kept.
SliceAll(s, k) == s

\* Python's  s[:k]
Slice(s, k) ==
    IF k >= 0 THEN SubSeq(s, 1, IF k < Len(s) THEN k ELSE Len(s))
    ELSE SubSeq(s, 1, IF Len(s) + k > 0 THEN Len(s) + k ELSE 0)

\* How asking for a search page ends.
SearchOutcomes(f) ==
    IF f = "static" THEN {"200", "404", "RequestException", "hang"}
    ELSE {"loaded", "WebDriverException"}

\* How one call of get_rs_data ends, seen from the loop.
RsDataOutcomes(f) ==
    IF f = "static" THEN {"returned", "raised", "blocked"} ELSE {"returned", "raised"}

InitCrawl ==
    /\ frontend \in Frontends
    /\ doc = NoTable
    /\ pc = "while"
    /\ data_type = None
    /\ Fresh

\* while rs_count < rs_demand: get the search page, keep at most
\* rs_demand - rs_count of its links.
WhileTest ==
    /\ pc = "while"
    /\ pg_count <= MaxPage
    /\ IF rs_count < rs_demand
       THEN \E r \in SearchOutcomes(frontend), n \in 0..MaxLinks :
              CASE r \in {"200", "loaded"} ->
                     /\ rs_links' = Slice(SearchPage(n), rs_demand - rs_count)
                     /\ pc' = "for" /\ raised' = raised
                [] r = "404"  -> pc' = "main_return" /\ UNCHANGED <<rs_links, raised>>
                [] r = "hang" -> pc' = "blocked" /\ UNCHANGED <<rs_links, raised>>
                [] OTHER      -> Escape(r) /\ UNCHANGED rs_links
       ELSE pc' = "main_done" /\ UNCHANGED <<rs_links, raised>>
    /\ UNCHANGED <<frontend, doc, data_dict, lookups, requests, probes, url_ret,
                   candidate, net, tls, cert_ret, data_type, member_ret,
                   rs_count, data, pg_count>>

\* for link in rs_links: rs_data = get_rs_data(link); if rs_data: append, count.
\* The record is a non-empty dict, so it is always appended.
ForLink ==
    /\ pc = "for" /\ rs_links # <<>>
    /\ \E r \in RsDataOutcomes(frontend) :
         CASE r = "returned" ->
                /\ data' = Append(data, [page |-> pg_count])
                /\ rs_count' = rs_count + 1
                /\ rs_links' = Tail(rs_links)
                /\ UNCHANGED <<pc, raised>>
           [] r = "raised"  -> Escape("Exception") /\ UNCHANGED <<data, rs_count, rs_links>>
           [] r = "blocked" ->
                pc' = "blocked" /\ UNCHANGED <<data, rs_count, rs_links, raised>>
    /\ UNCHANGED <<frontend, doc, data_dict, lookups, requests, probes, url_ret,
                   candidate, net, tls, cert_ret, data_type, member_ret, pg_count>>

\* After the links of the page: if rs_count % 30 == 0: pg_count += 1
NextPage ==
    /\ pc = "for" /\ rs_links = <<>>
    /\ pg_count' = IF rs_count % 30 = 0 THEN pg_count + 1 ELSE pg_count
    /\ pc' = "while"
    /\ UNCHANGED <<frontend, doc, data_dict, raised, lookups, requests, probes,
                   url_ret, candidate, net, tls, cert_ret, data_type, member_ret,
                   rs_count, data, rs_links>>

NextCrawl == WhileTest \/ ForLink \/ NextPage

SpecCrawl == InitCrawl /\ [][NextCrawl]_vars

\* ------------------------------------------- get_address on raw addresses
\* The specification below runs get_address on a page whose region holds
\* each raw address of RawAddresses, with and without the locality node.

Nagano   == <<"naga", "no", "ken">>
Kanagawa == <<"jin", "nara", "kawa", "ken">>

Prefixes == {Nagano, Kanagawa}

\* The characters a drawn address is made of after its prefix.
Alphabet == {"dai", "machi", "shi", "ku", "gun", "ken", "1"}

Bodies == UNION { [1..k -> Alphabet] : k \in 0..MaxBody }

\* Addresses written out: Shibuya with and without its house number, and
\* around the allow-listed cities Omachi, Tokamachi and Asahikawa and the
\* district town Tamamura.
Omachi     == Nagano \o <<"dai", "machi", "shi">>
Tokamachi  == <<"nii", "gata", "ken", "ju", "hi", "machi", "shi">>
Asahikawa  == <<"kita", "kai", "do", "asahi", "kawa", "shi">>
Tamamura   == <<"mure", "ma", "ken", "sa", "nami", "gun", "tama", "mura", "machi">>

Examples ==
    { Shibuya, SubSeq(Shibuya, 1, 8),
      SubSeq(Shibuya, 1, 6) \o <<"1", "-", "1", "-", "1">>,
      Omachi \o <<"dai", "machi", "1", "-", "2">>,
      Omachi \o <<"1", "2">>,
      Omachi \o <<"dai", "1", "ku", "2">>,
      Kanagawa \o <<"dai", "machi", "shi", "dai", "1">>,
      Tokamachi \o <<"1">>, Tokamachi \o <<"minami", "1", "-", "2">>,
      Asahikawa \o <<"1", "-", "2">>, Asahikawa \o <<"minami", "1", "-", "2">>,
      Tamamura \o <<"minami", "1">>, Tamamura \o <<"1", "nl", "2">> }

RawAddresses == { pre \o body : pre \in Prefixes, body \in Bodies } \cup Examples

AddressPage(region, locality) ==
    [NoTable EXCEPT !.table = TRUE, !.adr = TRUE, !.has_region = TRUE,
                    !.region = region, !.locality = locality]

InitAddress ==
    /\ frontend \in Frontends
    /\ \E region \in RawAddresses, locality \in BOOLEAN :
         doc = AddressPage(region, locality)
    /\ pc = "address"
    /\ data_type = None
    /\ Fresh

NextAddress == GetAddress

SpecAddress == InitAddress /\ [][NextAddress]_vars

\* ================================================================ claims

\* get_url has returned, raised or blocked.
UrlCalled == url_ret.kind # "none"

\* The a.url.go-off link is there and its data-o cannot be decoded.
BadDataO == doc.link /\ doc.data_o \in {"malformed", "non_object", "no_a", "no_b"}

\* C1 (as claimed): when the primary link exists but its data-o is malformed
\* JSON, JSON that is no object, or an object without 'a' or 'b', get_url
\* raises nothing and goes on to the fallback step: if the fallback link
\* exists (and carries an href), the candidate is that href.
C1_MalformedFallsThrough ==
    (UrlCalled /\ BadDataO) =>
        /\ url_ret.kind # "raise"
        /\ (doc.sv_site /\ doc.sv_link /\ Truthy(doc.href) => candidate = doc.href)

\* C2 (as claimed): check_ssl_certificate is called only with a non-empty
\* resolved URL, and when get_url returned None no probe is made and the SSL
\* field of the record is the boolean False.
C2_NoUrlNoProbe ==
    /\ (probes > 0 => Truthy(data_dict.URL))
    /\ (pc = "returned" /\ url_ret = Return(None) =>
            probes = 0 /\ data_dict.SSL = "False")

\* Every field whose element is absent from the page is the empty string.
AbsentFieldsEmpty ==
    /\ (~doc.name => data_dict.name = "")
    /\ (~(doc.phone_row /\ doc.number) => data_dict.phone = "")
    /\ (~doc.mailto => data_dict.email = "")
    /\ (~doc.has_region =>
            data_dict.prefecture = <<>> /\ data_dict.city = <<>>
            /\ data_dict.street = <<>>)
    /\ (~doc.locality => data_dict.building = "")
    /\ (~doc.link /\ ~doc.sv_link => data_dict.URL = "")

\* C3 (as claimed): for a page that has the root table, whatever sub-elements
\* are missing, get_rs_data raises nothing and the record it returns holds
\* the empty string in each absent field.
C3_AbsenceNeverRaises ==
    doc.table =>
        /\ raised \in {None, "WebDriverException"}
        /\ (pc = "returned" /\ lookups > 0 => AbsentFieldsEmpty)

\* C4 (as claimed): a page without the root table gives the defaulted record
\* at once: no lookup, no redirect request, no probe, and nothing raised.
C4_NoTableDefaults ==
    (~doc.table /\ pc \in {"returned", "raised"} /\ raised # "WebDriverException") =>
        /\ pc = "returned"
        /\ raised = None
        /\ data_dict = Defaults
        /\ lookups = 0 /\ requests = 0 /\ probes = 0

\* C5 (as claimed): every call of check_ssl_certificate returns a pair of a
\* boolean and a message, (True, "SSL Available") exactly when the handshake
\* gave a certificate, and nothing is raised in check_ssl_status.
C5_ProbeReturnsPair ==
    cert_ret.kind # "none" =>
        /\ cert_ret.kind = "return"
        /\ Len(cert_ret.val) = 2
        /\ cert_ret.val[1] \in {"True", "False"}
        /\ (cert_ret.val = <<"True", "SSL Available">> <=> tls = "cert")
        /\ pc = "returned"

\* C6: once get_url holds a candidate URL, what it returns is never absent:
\* the final URL when the redirect-following GET succeeded, the candidate
\* itself when that GET failed.
C6_CandidateNeverDropped ==
    (url_ret.kind \in {"return", "raise"} /\ Truthy(candidate)) =>
        /\ url_ret.kind = "return"
        /\ Truthy(url_ret.val)
        /\ (net = "ok" => url_ret.val = FinalUrl(candidate))
        /\ (net = "error" => url_ret.val = candidate)

\* get_url found a candidate in the fallback step, the GET failed, and the
\* candidate came back.
C6_Witness ==
    /\ frontend = "static"
    /\ candidate = AltUrl /\ requests = 1 /\ net = "error"
    /\ url_ret = Return(AltUrl)

\* C7: get_rs_data_member raises ValueError for every data_type other than
\* 'name', 'phone' and 'email', whatever the page holds, and never raises it
\* for those three.
C7_ClosedEnumeration ==
    member_ret.kind # "none" =>
        IF data_type \in {"name", "phone", "email"}
        THEN member_ret # Raise("ValueError")
        ELSE member_ret = Raise("ValueError")

\* An unknown data_type was rejected on a page that holds every element.
C7_Witness ==
    /\ pc = "called" /\ data_type = "address"
    /\ doc.name /\ doc.number /\ doc.mailto
    /\ member_ret = Raise("ValueError")

\* ---- the address claims: what a raw address is made of, read off the text

\* The split get_address stored in the record.
Stored == [prefecture |-> data_dict.prefecture, city |-> data_dict.city,
           street |-> data_dict.street]

Split(m) == [prefecture |-> m.prefecture, city |-> m.city, street |-> m.street]

\* get_address has returned for the page's region.
AddressDone == pc = "url"

\* Where the prefecture of s ends: after the third character if that is a
\* prefecture suffix, else after the fourth if that is one; 0 if neither.
PrefEnd(s) ==
    IF Len(s) >= 3 /\ s[3] \in PrefectureSuffix THEN 3
    ELSE IF Len(s) >= 4 /\ s[4] \in PrefectureSuffix THEN 4
    ELSE 0

DigitPositions(s, from) == { k \in from..Len(s) : s[k] \in Digits }

\* The first digit of s at or after position from; 0 if there is none.
FirstDigit(s, from) ==
    IF DigitPositions(s, from) = {} THEN 0 ELSE Min(DigitPositions(s, from))

\* The last city suffix of s in a..b; 0 if there is none.
LastSuffix(s, a, b) ==
    LET cs == { k \in a..b : s[k] \in CitySuffix }
    IN  IF cs = {} THEN 0 ELSE CHOOSE k \in cs : \A j \in cs : j <= k

\* s ends its line at position e: e is the last position before the first
\* line break after d, or the end of s.
LineEnd(s, d) ==
    LET ns == { k \in d..Len(s) : s[k] = LineBreak }
    IN  IF ns = {} THEN Len(s) ELSE Min(ns) - 1

\* s is a prefecture, then a city name that ends in a city suffix, then
\* a house number right away or after a town name.
PrefectureCityNumber(s) ==
    LET p == PrefEnd(s)
        d == FirstDigit(s, 1)
    IN  /\ p # 0 /\ d > p + 2
        /\ \A k \in 1..(d - 1) : s[k] # LineBreak
        /\ \A k \in d..Len(s) : s[k] \in Digits \cup {"-"}
        /\ LastSuffix(s, p + 2, d - 1) # 0

\* PrefectureCityNumber with a town name of at least one character between
\* the last city suffix and the house number.
PrefectureCityTownNumber(s) ==
    /\ PrefectureCityNumber(s)
    /\ LastSuffix(s, PrefEnd(s) + 2, FirstDigit(s, 1) - 1) < FirstDigit(s, 1) - 1

\* C8 (as claimed): for a prefecture + city + house number address the city
\* field ends at a city suffix character and the street is the house number.
C8_CityEndsAtSuffix ==
    (AddressDone /\ PrefectureCityNumber(doc.region)) =>
        /\ data_dict.prefecture = SubSeq(doc.region, 1, PrefEnd(doc.region))
        /\ data_dict.city # <<>>
        /\ data_dict.city[Len(data_dict.city)] \in CitySuffix
        /\ data_dict.street =
              SubSeq(doc.region, FirstDigit(doc.region, 1), Len(doc.region))

\* C8 (amended): for a prefecture + city + town + house number address the
\* prefecture is the prefecture, the city field is everything between the
\* prefecture and the first digit, town name included, and the street is
\* the house number.
C8_CityRunsToFirstDigit ==
    (AddressDone /\ PrefectureCityTownNumber(doc.region)) =>
        Stored = [prefecture |-> SubSeq(doc.region, 1, PrefEnd(doc.region)),
                  city       |-> SubSeq(doc.region, PrefEnd(doc.region) + 1,
                                        FirstDigit(doc.region, 1) - 1),
                  street     |-> SubSeq(doc.region, FirstDigit(doc.region, 1),
                                        Len(doc.region))]

\* The Shibuya address was split: the city holds the town name Jinnan.
C8_Witness ==
    /\ AddressDone /\ doc.region = Shibuya
    /\ PrefectureCityTownNumber(doc.region)
    /\ data_dict.city = <<"shibu", "ya", "ku", "jin", "minami">>
    /\ data_dict.street = <<"1", "-", "1", "-", "1">>

\* The allow-listed names that, followed by shi, stand in s at position a.
NamedAt(s, a) ==
    { i \in 1..Len(NamedCities) : Lit(s, a, NamedCities[i] \o <<"shi">>) }

\* The city part of s begins with an allow-listed city.
NamedCityAddress(s) ==
    /\ PrefEnd(s) # 0
    /\ \A k \in 1..PrefEnd(s) : s[k] # LineBreak
    /\ NamedAt(s, PrefEnd(s) + 1) # {}

\* The position in s of the shi that ends the allow-listed city name.
NamedShi(s) ==
    PrefEnd(s) + Len(NamedCities[CHOOSE i \in NamedAt(s, PrefEnd(s) + 1) : TRUE]) + 1

\* NamedCityAddress where shi is followed by at least one character and a
\* digit comes after that character, with no line break in between.
NamedCityThenText(s) ==
    /\ NamedCityAddress(s)
    /\ NamedShi(s) + 1 <= Len(s)
    /\ FirstDigit(s, NamedShi(s) + 2) # 0
    /\ \A k \in (NamedShi(s) + 1)..(FirstDigit(s, NamedShi(s) + 2) - 1) :
          s[k] # LineBreak

C10_NoDigitNoMatch ==
    (AddressDone /\ DigitPositions(doc.region, 1) = {}) =>
        /\ data_dict.prefecture = <<>> /\ data_dict.city = <<>>
        /\ data_dict.street = <<>>
        /\ data_dict.building = (IF doc.locality THEN "BUILDING" ELSE "")

\* The Shibuya address without its house number was looked at, on a page
\* with a locality node.
C10_Witness ==
    /\ AddressDone /\ doc.region = SubSeq(Shibuya, 1, 8) /\ doc.locality
    /\ data_dict.city = <<>> /\ data_dict.building = "BUILDING"

\* C11 (as claimed): once the detail page is read and get_url is about to
\* run, the extraction of the record eventually completes, by
\* returning the record or by raising, whatever the host of the candidate URL
\* does: neither the redirect-following GET nor the TLS probe waits forever.
C11_ExtractionCompletes == (pc = "url") ~> (pc \in {"returned", "raised"})

\* C12 (as claimed): whenever the pattern matched, the street is the raw
\* address from the first digit after the prefecture to its end, and the city
\* holds no digit.
C12_StreetFromFirstDigit ==
    (AddressDone /\ data_dict.prefecture # <<>>) =>
        /\ data_dict.street =
              SubSeq(doc.region,
                     FirstDigit(doc.region, Len(data_dict.prefecture) + 1),
                     Len(doc.region))
        /\ DigitPositions(data_dict.city, 1) = {}

\* C13: for a raw address without line break the three fields are either
\* all empty, or all non-empty and, put together, the raw address again,
\* with a prefecture of 3 or 4 characters that ends in a prefecture suffix.
C13_AllOrNothingLossless ==
    (AddressDone /\ \A k \in 1..Len(doc.region) : doc.region[k] # LineBreak) =>
        \/ Stored = [prefecture |-> <<>>, city |-> <<>>, street |-> <<>>]
        \/ /\ data_dict.prefecture # <<>> /\ data_dict.city # <<>>
           /\ data_dict.street # <<>>
           /\ data_dict.prefecture \o data_dict.city \o data_dict.street = doc.region
           /\ Len(data_dict.prefecture) \in {3, 4}
           /\ data_dict.prefecture[Len(data_dict.prefecture)] \in PrefectureSuffix

\* The Shibuya address was split into three non-empty parts that make it up.
C13_Witness ==
    /\ AddressDone /\ doc.region = Shibuya
    /\ data_dict.prefecture = <<"higashi", "kyo", "to">>
    /\ Len(data_dict.street) = 5
    /\ data_dict.prefecture \o data_dict.city \o data_dict.street = Shibuya

\* C14: in the crawl loop rs_count never exceeds rs_demand, it is the length
\* of data, and when the loop ends because its condition is false rs_count
\* is rs_demand exactly.
C14_CountWithinDemand ==
    /\ rs_count <= rs_demand
    /\ rs_count = Len(data)
    /\ (pc = "main_done" => rs_count = rs_demand)

\* The loop has ended with rs_demand records, the last ones from a later
\* search page than the first ones.
C14_Witness ==
    /\ pc = "main_done" /\ rs_count = rs_demand /\ Len(data) = rs_demand
    /\ data[1].page < data[rs_demand].page

====
